---- MODULE Spec2Model ----
(***************************************************************************)
(* Protracted speciation process of dendropy/model/protractedspeciation.py *)
(* (class ProtractedSpeciationModel): the retry controller generate_sample,*)
(* the event loop _run_protracted_speciation_process, the five event       *)
(* handlers, the pruned-tree reconstruction and the postprocessing.        *)
(*                                                                         *)
(* Time is an integer clock; waiting times are drawn from 0..MaxWait.      *)
(* Python's None is the value None (-1). Tree nodes are numbered by        *)
(* current_node_index; lineages by current_lineage_index.                  *)
(***************************************************************************)
EXTENDS Integers, Sequences, FiniteSets, TLC

\* ---------------------------------------------------------------- bounds
MaxLineages == 4
MaxWait == 2
MaxClock == 3
MaxRetryCap == 2
MaxZeroWaits == 2

None == 0 - 1

\* ------------------------------------------------------- configurations
\* kwargs of generate_sample and the five rates of __init__.
RateVectors ==
    { <<1, 1, 1, 1, 1>>,
      <<1, 0, 0, 0, 0>>,
      <<1, 0, 1, 0, 0>>,
      <<0, 1, 0, 1, 1>>,
      <<0, 0, 1, 1, 1>>,
      <<0, 0, 0, 0, 0>>,
      <<1, 0 - 1, 0, 0, 0>> }

LimitVectors ==
    \* <<max_time, max_protracted_speciation_tree_leaf_nodes,
    \*   max_full_species_tree_leaf_nodes>>
    { <<0, None, None>>,
      <<2, None, None>>,
      <<3, None, None>>,
      <<None, 1, None>>,
      <<None, 3, None>>,
      <<None, None, 1>>,
      <<None, None, 2>>,
      <<3, 3, 2>> }

RetryVectors ==
    \* <<is_retry_on_total_extinction, max_retries>>
    { <<TRUE, 0>>, <<TRUE, 1>>, <<TRUE, None>> }

\* rates and limits of the calls made with is_retry_on_total_extinction
RetryRateVectors == { <<1, 1, 1, 1, 1>>, <<0, 1, 0, 1, 1>> }
RetryLimitVectors == { <<2, None, None>>, <<None, 1, None>> }

Config(r, l, t, i) ==
    [ full_species_birth_rate            |-> r[1],
      full_species_extinction_rate       |-> r[2],
      incipient_species_birth_rate       |-> r[3],
      incipient_species_conversion_rate  |-> r[4],
      incipient_species_extinction_rate  |-> r[5],
      max_time                                  |-> l[1],
      max_protracted_speciation_tree_leaf_nodes |-> l[2],
      max_full_species_tree_leaf_nodes          |-> l[3],
      is_initial_species_incipient  |-> i,
      is_retry_on_total_extinction  |-> t[1],
      max_retries                   |-> t[2] ]

Configs ==
    { Config(r, l, <<FALSE, 1>>, i) :
        r \in RateVectors, l \in LimitVectors, i \in BOOLEAN }
    \cup
    { Config(r, l, t, i) :
        r \in RetryRateVectors, l \in RetryLimitVectors, t \in RetryVectors,
        i \in BOOLEAN }

VARIABLES
    cfg,                                 \* rates and kwargs of the call
    pc,                                  \* position in generate_sample
    exc,                                 \* exception in flight / raised
    num_retries,                         \* generate_sample local
    runs,                                \* calls of _run_protracted_speciation_process
    current_time,
    current_lineage_index,
    current_node_index,
    current_full_species_lineages,
    current_incipient_species_lineages,
    all_lineages,                        \* _all_lineages, position = index
    psm_nodes,                           \* nodes made by _new_node
    seed_node,                           \* psm_tree.seed_node
    last_event,                          \* event applied by the last iteration
    stop_reason,                         \* which limit ended the run
    pruned_tree                          \* pruned tree of the returned pair

vars == << cfg, pc, exc, num_retries, runs, current_time, current_lineage_index,
           current_node_index, current_full_species_lineages,
           current_incipient_species_lineages, all_lineages, psm_nodes,
           seed_node, last_event, stop_reason, pruned_tree >>

\* ------------------------------------------------------------ utilities
Range(s) == { s[i] : i \in DOMAIN s }

Remove(s, x) ==
    \* list.remove(x): drops the first occurrence of x
    LET i == CHOOSE k \in DOMAIN s : s[k] = x /\ \A j \in 1..(k-1) : s[j] # x
    IN  SubSeq(s, 1, i - 1) \o SubSeq(s, i + 1, Len(s))

\* ------------------------------------------ tree library (dendropy.Tree)
\* A tree is a function ns from node ids to records with the fields
\* parent_node (0: none) and length, together with its seed node.
ChildNodes(ns, n) == { m \in DOMAIN ns : ns[m].parent_node = n }

RECURSIVE InTree(_, _, _)
InTree(ns, seed, n) ==
    IF n = seed THEN TRUE
    ELSE IF ns[n].parent_node = 0 THEN FALSE
    ELSE InTree(ns, seed, ns[n].parent_node)

TreeNodes(ns, seed) == { n \in DOMAIN ns : InTree(ns, seed, n) }

LeafNodes(ns, seed) == { n \in TreeNodes(ns, seed) : ChildNodes(ns, n) = {} }

AddLength(a, b) ==
    \* suppress_unifurcations: the child's edge takes up the deleted edge
    IF a = None THEN b ELSE IF b = None THEN a ELSE a + b

RECURSIVE suppress_unifurcations(_, _)
suppress_unifurcations(ns, seed) ==
    LET uni == { n \in TreeNodes(ns, seed) : Cardinality(ChildNodes(ns, n)) = 1 }
    IN  IF uni = {} THEN [nodes |-> ns, seed |-> seed]
        ELSE
          LET nd == CHOOSE n \in uni : TRUE
              ch == CHOOSE m \in ChildNodes(ns, nd) : TRUE
              ns2 == [ns EXCEPT
                        ![ch].length = AddLength(ns[ch].length, ns[nd].length),
                        ![ch].parent_node = ns[nd].parent_node,
                        ![nd].parent_node = 0]
          IN  suppress_unifurcations(ns2, IF nd = seed THEN ch ELSE seed)

prune_subtree(ns, seed, n) ==
    suppress_unifurcations([ns EXCEPT ![n].parent_node = 0], seed)

RECURSIVE PathLength(_, _)
PathLength(ns, n) ==
    \* sum of the edge lengths from n up to and including the root's edge
    ns[n].length +
      (IF ns[n].parent_node = 0 THEN 0 ELSE PathLength(ns, ns[n].parent_node))

\* ------------------------------------------------------------- lineages
ProtractedSpeciationModelLineage(parent_lineage, now, is_full_species) ==
    [ parent_lineage             |-> parent_lineage,
      is_full_species            |-> is_full_species,
      speciation_initiation_time |-> now,
      speciation_completion_time |-> None,
      extinction_time            |-> None,
      psm_tree_node_history      |-> << >> ]

\* lineage.node: the last node of the history
LineageNode(lins, l) ==
    lins[l].psm_tree_node_history[Len(lins[l].psm_tree_node_history)]

ActiveLineages(full, inc) == full \o inc        \* itertools.chain(full, inc)

\* faulty variant: a new node starts with an edge of length 1
NewNodeRecordUnitLength(lineage) ==
    [ lineage |-> lineage, parent_node |-> 0, length |-> 1,
      is_full_speciation_event |-> FALSE ]

\* _new_node: a zero-length node owned by the lineage, appended to its history
NewNodeRecord(lineage) ==
    [ lineage |-> lineage, parent_node |-> 0, length |-> 0,
      is_full_speciation_event |-> FALSE ]

\* faulty variant: only the full species' edges grow
ExtendFullSpeciesEdges(ns, lins, active, t) ==
    [ n \in DOMAIN ns |->
        IF \E i \in DOMAIN active :
              /\ LineageNode(lins, active[i]) = n
              /\ lins[active[i]].is_full_species
        THEN [ns[n] EXCEPT !.length = @ + t]
        ELSE ns[n] ]

\* lines 234-235 / 239-240: every active lineage's current edge grows by t
ExtendActiveEdges(ns, lins, active, t) ==
    [ n \in DOMAIN ns |->
        IF \E i \in DOMAIN active : LineageNode(lins, active[i]) = n
        THEN [ns[n] EXCEPT !.length = @ + t]
        ELSE ns[n] ]

\* ------------------------------------------- pruned-tree reconstruction
\* Pruned-tree nodes are keyed by the lineage they stand for.
NoPrunedNode ==
    [ made |-> FALSE, parent_node |-> 0, length |-> None, age |-> None,
      psm_tree_node |-> 0 ]

\* the lineages of the set that share their initiation time with another one
TiedLineages(lins, set) ==
    { l \in set :
        \E m \in set :
           /\ m # l
           /\ lins[m].speciation_initiation_time
                = lins[l].speciation_initiation_time }

\* The orders in which lineage_set can iterate when it is sorted (lines
\* 343 and 382). A set iterates in the order of the slots of its hash
\* table; a lineage object is hashed by its address, and a lineage added
\* after removals can land in another slot than before, so any order can
\* occur at any sort. sorted is stable, so only the relative order of
\* lineages of equal initiation time matters: an order is a sequence of
\* these, each once.
SetOrders(lins, set) ==
    LET tied == TiedLineages(lins, set)
    IN  { order \in [1..Cardinality(tied) -> tied] :
            \A i, j \in DOMAIN order : order[i] = order[j] => i = j }

\* the place of lineage l in the iteration order
Position(order, l) == CHOOSE i \in DOMAIN order : order[i] = l

\* sorted(lineage_set, key=-speciation_initiation_time).pop(0): the latest
\* initiated lineage; of several initiated at the same time, the one that
\* comes first in the iteration order of the set
FirstSorted(lins, set, order) ==
    CHOOSE l \in set :
       \A m \in set \ { l } :
          \/ lins[m].speciation_initiation_time
                < lins[l].speciation_initiation_time
          \/ /\ lins[m].speciation_initiation_time
                  = lins[l].speciation_initiation_time
             /\ Position(order, l) < Position(order, m)

\* _require_pruned_tree_node
require_pruned_tree_node(st, l) ==
    IF st.nodes[l].made THEN st
    ELSE [st EXCEPT !.nodes[l].made = TRUE, !.bp = Append(@, l)]

\* The orders lineage_set can iterate in at the sort of line 382. The set
\* is built from the same lists at line 342 of every call on the same
\* state, so after the same removals and additions (st.ops) as in an earlier
\* call (st.prev: the sorts of that call) it iterates as it did then.
SortOrders(st) ==
    LET seen == { i \in DOMAIN st.prev : st.prev[i].ops = st.ops }
    IN  IF seen # {} THEN { st.prev[CHOOSE i \in seen : TRUE].order }
        ELSE SetOrders(st.lins, st.set)

\* the while loop of _assemble_pruned_tree (lines 350-383): the states it
\* can end in. sorted_lineages keeps the order of the last sort (st.order)
\* until the set is sorted again.
RECURSIVE BranchingLoop(_)
BranchingLoop(st) ==
    IF st.set = {} THEN { st }
    ELSE
      LET lineage == FirstSorted(st.lins, st.set, st.order)
          parent_lineage == st.lins[lineage].parent_lineage
          s1 == [st EXCEPT !.set = @ \ {lineage}, !.popped = Append(@, lineage),
                           !.ops = Append(@, << "remove", lineage >>)]
      IN  IF parent_lineage = 0 THEN { s1 }
          ELSE IF s1.lins[lineage].is_full_species THEN
            LET s2 == require_pruned_tree_node(s1, lineage)
                s3 == [s2 EXCEPT !.lins[parent_lineage].is_full_species = TRUE]
                s4 == require_pruned_tree_node(s3, parent_lineage)
                s5 == [s4 EXCEPT !.nodes[lineage].parent_node = parent_lineage,
                                 !.attached = Append(@, lineage)]
                s6 == [s5 EXCEPT !.set = @ \cup {parent_lineage},
                                 !.ops = Append(@, << "add", parent_lineage >>)]
            IN  IF parent_lineage \in s5.set THEN BranchingLoop(s5)
                ELSE UNION {
                       BranchingLoop(
                         [s6 EXCEPT !.order = order,
                                    !.sorts = Append(@, [ops   |-> s6.ops,
                                                         order |-> order])])
                       : order \in SortOrders(s6) }
          ELSE BranchingLoop(s1)

\* lines 342-349: the working set sorted for the first time, iterating in
\* the given order, and the loop run from there
BranchingPoints(lins, full, inc, order, prev) ==
    BranchingLoop([ set      |-> Range(inc \o full),
                    order    |-> order,
                    first    |-> order,
                    ops      |-> << >>,
                    sorts    |-> << >>,
                    prev     |-> prev,
                    lins     |-> lins,
                    nodes    |-> [l \in DOMAIN lins |-> NoPrunedNode],
                    bp       |-> << >>,
                    popped   |-> << >>,
                    attached |-> << >> ])

\* lines 384-388: the first branching point without a parent node (0: none)
SeedOf(st) ==
    LET roots == { i \in DOMAIN st.bp : st.nodes[st.bp[i]].parent_node = 0 }
    IN  IF roots = {} THEN 0
        ELSE st.bp[CHOOSE i \in roots : \A j \in roots : i <= j]

MinOf(S) == CHOOSE x \in S : \A y \in S : x <= y

\* faulty variant: the earliest initiation time minus the clock
NodeAgesTimeMinusClock(ns, seed, lins, now) ==
    [ l \in DOMAIN ns |->
        IF ~ InTree(ns, seed, l) THEN ns[l]
        ELSE IF ChildNodes(ns, l) = {} THEN [ns[l] EXCEPT !.age = 0]
        ELSE [ns[l] EXCEPT !.age =
                MinOf({ lins[ch].speciation_initiation_time :
                          ch \in ChildNodes(ns, l) }) - now] ]

\* lines 396-400: leaves get age 0, internal nodes the clock minus the
\* earliest initiation time among their children's lineages
NodeAges(ns, seed, lins, now) ==
    [ l \in DOMAIN ns |->
        IF ~ InTree(ns, seed, l) THEN ns[l]
        ELSE IF ChildNodes(ns, l) = {} THEN [ns[l] EXCEPT !.age = 0]
        ELSE [ns[l] EXCEPT !.age =
                now - MinOf({ lins[ch].speciation_initiation_time :
                                ch \in ChildNodes(ns, l) })] ]

\* Tree.set_edge_lengths_from_node_ages: parent age minus own age
set_edge_lengths_from_node_ages(ns, seed) ==
    [ l \in DOMAIN ns |->
        IF InTree(ns, seed, l) /\ ns[l].parent_node # 0
        THEN [ns[l] EXCEPT !.length = ns[ns[l].parent_node].age - ns[l].age]
        ELSE ns[l] ]

\* lines 384-403 of _assemble_pruned_tree, after the while loop has ended
\* in st: ok = FALSE stands for ProcessFailedException
PrunedTreeOf(st, now) ==
    LET seed  == SeedOf(st)
        aged  == NodeAges(st.nodes, seed, st.lins, now)
        sized == set_edge_lengths_from_node_ages(aged, seed)
        supp  == suppress_unifurcations(sized, seed)
    IN  IF seed = 0
        THEN [ ok |-> FALSE, lins |-> st.lins, nodes |-> st.nodes, seed |-> 0,
               popped |-> st.popped, attached |-> st.attached, raw |-> st.nodes,
               first |-> st.first, sorts |-> st.sorts ]
        ELSE [ ok |-> TRUE, lins |-> st.lins, nodes |-> supp.nodes,
               seed |-> supp.seed, popped |-> st.popped,
               attached |-> st.attached, raw |-> st.nodes,
               first |-> st.first, sorts |-> st.sorts ]

\* _assemble_pruned_tree: the results it can have when the set iterates in
\* the given order at line 343
assemble_pruned_tree(lins, full, inc, now, order, prev) ==
    { PrunedTreeOf(st, now) : st \in BranchingPoints(lins, full, inc, order, prev) }

NoTree == [ ok |-> FALSE, nodes |-> << >>, seed |-> 0 ]

\* ------------------------------------------------ cross-tree postprocess
\* Tree.calc_node_ages on the live tree: a leaf has age 0, an internal node
\* its first child's age plus that child's edge length; None off the tree.
RECURSIVE NodeAge(_, _)
NodeAge(ns, n) ==
    IF ChildNodes(ns, n) = {} THEN 0
    ELSE LET ch == CHOOSE m \in ChildNodes(ns, n) : TRUE
         IN  NodeAge(ns, ch) + ns[ch].length

calc_node_ages(ns, seed) ==
    [ n \in DOMAIN ns |-> IF InTree(ns, seed, n) THEN NodeAge(ns, n) ELSE None ]

\* calc_node_ages raises when the children of a node disagree about its age
IsUltrametric(ns, seed) ==
    \A n \in TreeNodes(ns, seed) :
        \A c1, c2 \in ChildNodes(ns, n) :
            NodeAge(ns, c1) + ns[c1].length = NodeAge(ns, c2) + ns[c2].length

\* lines 425-428: scan of a lineage's node history for the oldest node.
\* A number compared with None is greater (Python 2 ordering).
RECURSIVE OldestNode(_, _, _, _)
OldestNode(hist, ages, i, cur) ==
    IF i > Len(hist) THEN cur
    ELSE IF ages[hist[i]] # None
            /\ (ages[cur] = None \/ ages[hist[i]] > ages[cur])
         THEN OldestNode(hist, ages, i + 1, hist[i])
         ELSE OldestNode(hist, ages, i + 1, cur)

\* line 427 compares a number with None: a TypeError under Python 3
ComparesWithNone(hist, ages) ==
    ages[hist[1]] = None /\ \E i \in DOMAIN hist : ages[hist[i]] # None

InternalPrunedNodes(pt) ==
    { l \in TreeNodes(pt.nodes, pt.seed) : ChildNodes(pt.nodes, l) # {} }

\* _postprocess_pruned_and_psm_trees, the pruned-tree side
PostprocessPruned(pt, lins, ages) ==
    [ pt EXCEPT !.nodes =
        [ l \in DOMAIN pt.nodes |->
            IF l \in InternalPrunedNodes(pt)
            THEN [pt.nodes[l] EXCEPT !.psm_tree_node =
                    OldestNode(lins[l].psm_tree_node_history, ages, 1,
                               lins[l].psm_tree_node_history[1])]
            ELSE pt.nodes[l] ] ]

\* Node.add_child appends: the children of pruned-tree node n in the order
\* they were attached, from the i-th add_child call on
RECURSIVE ChildSeq(_, _, _, _)
ChildSeq(raw, attached, n, i) ==
    IF i > Len(attached) THEN << >>
    ELSE (IF /\ raw[attached[i]].parent_node = n
             /\ \A j \in 1..(i - 1) : attached[j] # attached[i]
          THEN << attached[i] >> ELSE << >>)
         \o ChildSeq(raw, attached, n, i + 1)

\* Tree.__iter__: the nodes in preorder, from node n
RECURSIVE preorder_node_iter(_, _, _)
RECURSIVE PreorderOfAll(_, _, _)
preorder_node_iter(raw, attached, n) ==
    << n >> \o PreorderOfAll(raw, attached, ChildSeq(raw, attached, n, 1))

PreorderOfAll(raw, attached, seq) ==
    IF seq = << >> THEN << >>
    ELSE preorder_node_iter(raw, attached, Head(seq))
           \o PreorderOfAll(raw, attached, Tail(seq))

\* "for pruned_tree_nd in pruned_tree" (line 421). suppress_unifurcations
\* puts the only child in the place of the node it deletes, so the nodes
\* of the pruned tree come in the order they have in the unsuppressed tree.
PrunedTreeOrder(asm) ==
    SelectSeq(preorder_node_iter(asm.raw, asm.attached, asm.seed),
              LAMBDA l : InTree(asm.nodes, asm.seed, l))

\* the internal pruned-tree nodes the loop of lines 421-431 has dealt with
\* when line 427 raises the TypeError
VisitedBeforeTypeError(asm, lins, ages) ==
    LET order   == PrunedTreeOrder(asm)
        raising == { i \in DOMAIN order :
                       /\ order[i] \in InternalPrunedNodes(asm)
                       /\ ComparesWithNone(lins[order[i]].psm_tree_node_history,
                                           ages) }
    IN  { order[i] : i \in { j \in DOMAIN order : \A k \in raising : j < k } }
          \cap InternalPrunedNodes(asm)

\* _postprocess_pruned_and_psm_trees, the live-tree side, for the internal
\* pruned-tree nodes in visited
PostprocessPsm(ns, visited, lins, ages) ==
    [ n \in DOMAIN ns |->
        IF \E l \in visited :
              OldestNode(lins[l].psm_tree_node_history, ages, 1,
                         lins[l].psm_tree_node_history[1]) = n
        THEN [ns[n] EXCEPT !.is_full_speciation_event = TRUE]
        ELSE ns[n] ]

PostprocessTypeError(pt, lins, ages) ==
    \E l \in InternalPrunedNodes(pt) :
        ComparesWithNone(lins[l].psm_tree_node_history, ages)

\* ------------------------------------------------------------ the state
TypeOK ==
    /\ cfg \in Configs
    /\ pc \in { "call", "loop", "draw", "select", "finish",
                "except", "returned", "raised" }
    /\ exc \in { "none", "TreeSimTotalExtinctionException",
                 "ProcessFailedException", "ZeroDivisionError", "TypeError",
                 "UltrametricityError" }
    /\ num_retries \in Nat
    /\ runs \in Nat
    /\ current_time \in Nat
    /\ current_lineage_index = Len(all_lineages)
    /\ current_node_index = Len(psm_nodes)

\* After __init__ (which ends in reset) and the first lines of
\* generate_sample (157-161).
Init ==
    /\ cfg \in Configs
    /\ pc = "call"
    /\ exc = "none"
    /\ num_retries = 0
    /\ runs = 0
    /\ current_time = 0
    /\ current_lineage_index = 0
    /\ current_node_index = 0
    /\ current_full_species_lineages = << >>
    /\ current_incipient_species_lineages = << >>
    /\ all_lineages = << >>
    /\ psm_nodes = << >>
    /\ seed_node = 0
    /\ last_event = "none"
    /\ stop_reason = "none"
    /\ pruned_tree = NoTree

\* faulty variant: reset leaves the clock as the previous run left it
FreshRunKeepsClock(is_full_species) ==
    LET founder == [ProtractedSpeciationModelLineage(0, current_time, is_full_species)
                      EXCEPT !.psm_tree_node_history = << 1 >>]
    IN  [ current_time |-> current_time,
          current_lineage_index |-> 1,
          current_node_index |-> 1,
          full |-> IF is_full_species THEN << 1 >> ELSE << >>,
          inc  |-> IF is_full_species THEN << >> ELSE << 1 >>,
          all_lineages |-> << founder >>,
          psm_nodes |-> << NewNodeRecord(1) >>,
          seed_node |-> 1 ]

\* reset (lines 85-91) followed by the founder's _new_lineage and _new_node
\* (lines 182-189): the state a run has at its first loop iteration.
FreshRun(is_full_species) ==
    LET founder == [ProtractedSpeciationModelLineage(0, 0, is_full_species)
                      EXCEPT !.psm_tree_node_history = << 1 >>]
    IN  [ current_time |-> 0,
          current_lineage_index |-> 1,
          current_node_index |-> 1,
          full |-> IF is_full_species THEN << 1 >> ELSE << >>,
          inc  |-> IF is_full_species THEN << >> ELSE << 1 >>,
          all_lineages |-> << founder >>,
          psm_nodes |-> << NewNodeRecord(1) >>,
          seed_node |-> 1 ]

\* generate_sample line 164 entering _run_protracted_speciation_process,
\* lines 176-189.
RunStart ==
    /\ pc = "call"
    /\ LET f == FreshRun(~ cfg.is_initial_species_incipient)
       IN  /\ current_time' = f.current_time
           /\ current_lineage_index' = f.current_lineage_index
           /\ current_node_index' = f.current_node_index
           /\ current_full_species_lineages' = f.full
           /\ current_incipient_species_lineages' = f.inc
           /\ all_lineages' = f.all_lineages
           /\ psm_nodes' = f.psm_nodes
           /\ seed_node' = f.seed_node
    /\ runs' = runs + 1
    /\ pc' = "loop"
    /\ last_event' = "none"
    /\ stop_reason' = "none"
    /\ pruned_tree' = NoTree
    /\ UNCHANGED << cfg, exc, num_retries >>

\* ------------------------------------------------------- the event loop
NumActive == Len(current_full_species_lineages)
               + Len(current_incipient_species_lineages)

\* the results _assemble_pruned_tree can have in the current state
Assembled ==
    UNION { assemble_pruned_tree(all_lineages, current_full_species_lineages,
                                 current_incipient_species_lineages,
                                 current_time, order, << >>) :
            order \in SetOrders(all_lineages,
                                Range(current_incipient_species_lineages
                                        \o current_full_species_lineages)) }

\* return self._postprocess_pruned_and_psm_trees(...) (lines 202-204 and
\* 264-266, body 419-433) for an assembled pruned tree asm.
ReturnTrees(asm, reason) ==
    LET ages == calc_node_ages(psm_nodes, seed_node)
        pt   == [ok |-> TRUE, nodes |-> asm.nodes, seed |-> asm.seed]
    IN  /\ all_lineages' = asm.lins
        /\ stop_reason' = reason
        /\ IF ~ IsUltrametric(psm_nodes, seed_node)
           THEN /\ pc' = "raised"
                /\ exc' = "UltrametricityError"
                /\ UNCHANGED << psm_nodes, pruned_tree >>
           ELSE \/ /\ PostprocessTypeError(pt, asm.lins, ages)
                   /\ pc' = "raised"
                   /\ exc' = "TypeError"
                   /\ psm_nodes' =
                        PostprocessPsm(psm_nodes,
                                       VisitedBeforeTypeError(asm, asm.lins, ages),
                                       asm.lins, ages)
                   /\ UNCHANGED pruned_tree
                \/ /\ pc' = "returned"
                   /\ exc' = "none"
                   /\ pruned_tree' = PostprocessPruned(pt, asm.lins, ages)
                   /\ psm_nodes' = PostprocessPsm(psm_nodes, InternalPrunedNodes(pt),
                                                  asm.lins, ages)

\* faulty variant: the count is tested with > instead of >=
LeafLimitReachedStrict ==
    /\ cfg.max_protracted_speciation_tree_leaf_nodes # None
    /\ NumActive > cfg.max_protracted_speciation_tree_leaf_nodes

\* line 209: the max_protracted_speciation_tree_leaf_nodes test
LeafLimitReached ==
    /\ cfg.max_protracted_speciation_tree_leaf_nodes # None
    /\ NumActive >= cfg.max_protracted_speciation_tree_leaf_nodes

\* lines 196-204: the max_full_species_tree_leaf_nodes test on an assembled
\* pruned tree (a failed assembly is passed over, lines 205-206)
FullSpeciesLeafLimitReached(asm) ==
    /\ cfg.max_full_species_tree_leaf_nodes # None
    /\ asm.ok
    /\ Cardinality(LeafNodes(asm.nodes, asm.seed))
         >= cfg.max_full_species_tree_leaf_nodes

\* lines 194-210, the head of a loop iteration: the pruned tree is assembled
\* when max_full_species_tree_leaf_nodes is set (returning the trees when it
\* has enough leaves), then the number of active lineages is tested
CheckLimits ==
    /\ pc = "loop"
    /\ \E asm \in IF cfg.max_full_species_tree_leaf_nodes # None
                   THEN Assembled ELSE { NoTree } :
          IF FullSpeciesLeafLimitReached(asm)
          THEN ReturnTrees(asm, "max_full_species_tree_leaf_nodes")
          ELSE /\ all_lineages' =
                    IF cfg.max_full_species_tree_leaf_nodes # None
                    THEN asm.lins ELSE all_lineages
               /\ IF LeafLimitReached
                  THEN /\ pc' = "finish"
                       /\ stop_reason' = "max_protracted_speciation_tree_leaf_nodes"
                  ELSE /\ pc' = "draw"
                       /\ UNCHANGED stop_reason
               /\ UNCHANGED << exc, psm_nodes, pruned_tree >>
    /\ UNCHANGED << cfg, num_retries, runs, current_time, current_lineage_index,
                    current_node_index, current_full_species_lineages,
                    current_incipient_species_lineages, seed_node, last_event >>

\* faulty variant: event type 1 is weighted with the birth rate
EventRatesExtinctionAsBirth ==
    << cfg.full_species_birth_rate * Len(current_full_species_lineages),
       cfg.full_species_birth_rate * Len(current_full_species_lineages),
       cfg.incipient_species_birth_rate * Len(current_incipient_species_lineages),
       cfg.incipient_species_conversion_rate * Len(current_incipient_species_lineages),
       cfg.incipient_species_extinction_rate * Len(current_incipient_species_lineages) >>

\* lines 212-228
EventRates ==
    << cfg.full_species_birth_rate * Len(current_full_species_lineages),
       cfg.full_species_extinction_rate * Len(current_full_species_lineages),
       cfg.incipient_species_birth_rate * Len(current_incipient_species_lineages),
       cfg.incipient_species_conversion_rate * Len(current_incipient_species_lineages),
       cfg.incipient_species_extinction_rate * Len(current_incipient_species_lineages) >>

rate_of_any_event ==
    EventRates[1] + EventRates[2] + EventRates[3] + EventRates[4] + EventRates[5]

\* rng.expovariate(rate): the waiting times a positive rate can yield.
\* -log(1 - random()) / rate is 0.0 when random() returns 0.0.
expovariate(rate) == IF rate > 0 THEN 0..MaxWait ELSE {}

\* the time stamps of the registry: every event of a run sets exactly one
TimeStamps ==
    { << l, k >> \in (DOMAIN all_lineages) \X { "initiation", "completion", "extinction" } :
        CASE k = "initiation" -> TRUE
          [] k = "completion" -> all_lineages[l].speciation_completion_time # None
          [] k = "extinction" -> all_lineages[l].extinction_time # None }

\* the waiting times of 0 this run has drawn before the current iteration:
\* its events (all stamps but the founder's initiation), less one for every
\* clock value above 0 at which an event took place
ZeroWaits ==
    Cardinality(TimeStamps) - 1
      - Cardinality({ t \in 1..current_time :
            \E l \in DOMAIN all_lineages :
                t \in { all_lineages[l].speciation_initiation_time,
                        all_lineages[l].speciation_completion_time,
                        all_lineages[l].extinction_time } })

\* "if max_time and ...": None and 0 are both false
TimeLimitSet == cfg.max_time # None /\ cfg.max_time # 0

\* line 232
Overshoots(waiting_time) ==
    TimeLimitSet /\ current_time + waiting_time > cfg.max_time

\* lines 230-240: draw the waiting time, stop at max_time or advance the
\* clock and every active edge
DrawWaitingTime ==
    /\ pc = "draw"
    /\ IF rate_of_any_event = 0
       THEN \* expovariate divides by the rate
            /\ pc' = "raised"
            /\ exc' = "ZeroDivisionError"
            /\ UNCHANGED << current_time, psm_nodes, stop_reason >>
       ELSE \E waiting_time \in expovariate(rate_of_any_event) :
              IF Overshoots(waiting_time)
              THEN /\ psm_nodes' = ExtendActiveEdges(psm_nodes, all_lineages,
                                     ActiveLineages(current_full_species_lineages,
                                                    current_incipient_species_lineages),
                                     cfg.max_time - current_time)
                   /\ current_time' = cfg.max_time
                   /\ pc' = "finish"
                   /\ stop_reason' = "max_time"
                   /\ UNCHANGED exc
              ELSE /\ TimeLimitSet \/ current_time + waiting_time <= MaxClock
                   /\ waiting_time = 0 => ZeroWaits < MaxZeroWaits
                   /\ psm_nodes' = ExtendActiveEdges(psm_nodes, all_lineages,
                                     ActiveLineages(current_full_species_lineages,
                                                    current_incipient_species_lineages),
                                     waiting_time)
                   /\ current_time' = current_time + waiting_time
                   /\ pc' = "select"
                   /\ UNCHANGED << exc, stop_reason >>
    /\ UNCHANGED << cfg, num_retries, runs, current_lineage_index,
                    current_node_index, current_full_species_lineages,
                    current_incipient_species_lineages, all_lineages, seed_node,
                    last_event, pruned_tree >>

\* ---------------------------------------------------- the event handlers
\* probability.weighted_index_choice(weights=event_rates): an index is
\* drawn with probability proportional to its weight, so only an index
\* of positive weight can come out
weighted_index_choice(weights) == { i \in DOMAIN weights : weights[i] > 0 }

\* faulty variant: the new lineage is created without its parent
new_lineage_without_parent(lins, full, inc, parent_lineage, is_full_species, now) ==
    LET l == ProtractedSpeciationModelLineage(0, now, is_full_species)
    IN  [ lins |-> Append(lins, l),
          index |-> Len(lins) + 1,
          full |-> IF is_full_species THEN Append(full, Len(lins) + 1) ELSE full,
          inc  |-> IF is_full_species THEN inc ELSE Append(inc, Len(lins) + 1) ]

\* _new_lineage (lines 310-324)
new_lineage(lins, full, inc, parent_lineage, is_full_species, now) ==
    LET l == ProtractedSpeciationModelLineage(parent_lineage, now, is_full_species)
    IN  [ lins |-> Append(lins, l),
          index |-> Len(lins) + 1,
          full |-> IF is_full_species THEN Append(full, Len(lins) + 1) ELSE full,
          inc  |-> IF is_full_species THEN inc ELSE Append(inc, Len(lins) + 1) ]

\* _new_node (lines 326-339): appends the node to the lineage's history
new_node(ns, lins, lineage) ==
    [ nodes |-> Append(ns, NewNodeRecord(lineage)),
      lins  |-> [lins EXCEPT ![lineage].psm_tree_node_history =
                                Append(@, Len(ns) + 1)],
      node  |-> Len(ns) + 1 ]

\* parent_node.add_child(c)
add_child(ns, parent_node, c) == [ns EXCEPT ![c].parent_node = parent_node]

\* lines 260-261, after every handler
AfterEvent ==
    IF Len(current_full_species_lineages')
         + Len(current_incipient_species_lineages') = 0
    THEN pc' = "except" /\ exc' = "TreeSimTotalExtinctionException"
    ELSE pc' = "loop" /\ exc' = exc

\* faulty variant: only the new lineage gets a node, under the parent's node
BirthWithOneNode(parent_lineage) ==
    LET parent_node == LineageNode(all_lineages, parent_lineage)
        nl == new_lineage(all_lineages, current_full_species_lineages,
                          current_incipient_species_lineages, parent_lineage,
                          FALSE, current_time)
        c2 == new_node(psm_nodes, nl.lins, nl.index)
    IN  /\ current_lineage_index < MaxLineages
        /\ all_lineages' = c2.lins
        /\ current_full_species_lineages' = nl.full
        /\ current_incipient_species_lineages' = nl.inc
        /\ current_lineage_index' = current_lineage_index + 1
        /\ current_node_index' = current_node_index + 1
        /\ psm_nodes' = add_child(c2.nodes, parent_node, c2.node)
        /\ UNCHANGED << seed_node >>

\* faulty variant: the new lineage is born a full species
BirthOfFullSpecies(parent_lineage) ==
    LET parent_node == LineageNode(all_lineages, parent_lineage)
        nl == new_lineage(all_lineages, current_full_species_lineages,
                          current_incipient_species_lineages, parent_lineage,
                          TRUE, current_time)
        c1 == new_node(psm_nodes, nl.lins, parent_lineage)
        c2 == new_node(c1.nodes, c1.lins, nl.index)
    IN  /\ current_lineage_index < MaxLineages
        /\ all_lineages' = c2.lins
        /\ current_full_species_lineages' = nl.full
        /\ current_incipient_species_lineages' = nl.inc
        /\ current_lineage_index' = current_lineage_index + 1
        /\ current_node_index' = current_node_index + 2
        /\ psm_nodes' = add_child(add_child(c2.nodes, parent_node, c1.node),
                                  parent_node, c2.node)
        /\ UNCHANGED << seed_node >>

\* body shared by _process_full_species_birth (268-275) and
\* _process_incipient_species_birth (283-290)
Birth(parent_lineage) ==
    LET parent_node == LineageNode(all_lineages, parent_lineage)
        nl == new_lineage(all_lineages, current_full_species_lineages,
                          current_incipient_species_lineages, parent_lineage,
                          FALSE, current_time)
        c1 == new_node(psm_nodes, nl.lins, parent_lineage)
        c2 == new_node(c1.nodes, c1.lins, nl.index)
    IN  /\ current_lineage_index < MaxLineages
        /\ all_lineages' = c2.lins
        /\ current_full_species_lineages' = nl.full
        /\ current_incipient_species_lineages' = nl.inc
        /\ current_lineage_index' = current_lineage_index + 1
        /\ current_node_index' = current_node_index + 2
        /\ psm_nodes' = add_child(add_child(c2.nodes, parent_node, c1.node),
                                  parent_node, c2.node)
        /\ UNCHANGED << seed_node >>

FullSpeciesBirth ==
    /\ pc = "select"
    /\ 1 \in weighted_index_choice(EventRates)
    /\ \E parent_lineage \in Range(current_full_species_lineages) :
          Birth(parent_lineage)
    /\ last_event' = "full_species_birth"
    /\ AfterEvent
    /\ UNCHANGED << cfg, num_retries, runs, current_time, stop_reason, pruned_tree >>

IncipientSpeciesBirth ==
    /\ pc = "select"
    /\ 3 \in weighted_index_choice(EventRates)
    /\ \E parent_lineage \in Range(current_incipient_species_lineages) :
          Birth(parent_lineage)
    /\ last_event' = "incipient_species_birth"
    /\ AfterEvent
    /\ UNCHANGED << cfg, num_retries, runs, current_time, stop_reason, pruned_tree >>

\* faulty variant: the node is pruned and the loop goes on, whatever is left
prune_and_go_on(sp_node) ==
    LET t == prune_subtree(psm_nodes, seed_node, sp_node)
    IN  /\ psm_nodes' = t.nodes
        /\ seed_node' = t.seed
        /\ pc' = "loop"
        /\ exc' = exc

\* _make_lineage_extinct_on_phylogeny (305-308) after the handler removed
\* the lineage: raises when nothing is left, prunes the node otherwise
make_lineage_extinct_on_phylogeny(sp_node) ==
    IF Len(current_full_species_lineages') = 0
         /\ Len(current_incipient_species_lineages') = 0
    THEN /\ pc' = "except"
         /\ exc' = "TreeSimTotalExtinctionException"
         /\ UNCHANGED << psm_nodes, seed_node >>
    ELSE LET t == prune_subtree(psm_nodes, seed_node, sp_node)
         IN  /\ psm_nodes' = t.nodes
             /\ seed_node' = t.seed
             /\ AfterEvent

\* faulty variant: the extinct lineage stops counting as a full species
FullSpeciesExtinctionClearsFlag ==
    /\ pc = "select"
    /\ 2 \in weighted_index_choice(EventRates)
    /\ \E sp \in Range(current_full_species_lineages) :
          /\ all_lineages' = [all_lineages EXCEPT
                                ![sp].extinction_time = current_time,
                                ![sp].is_full_species = FALSE]
          /\ current_full_species_lineages' = Remove(current_full_species_lineages, sp)
          /\ UNCHANGED current_incipient_species_lineages
          /\ make_lineage_extinct_on_phylogeny(LineageNode(all_lineages, sp))
    /\ last_event' = "full_species_extinction"
    /\ UNCHANGED << cfg, num_retries, runs, current_time, current_lineage_index,
                    current_node_index, stop_reason, pruned_tree >>

\* _process_full_species_extinction (277-281)
FullSpeciesExtinction ==
    /\ pc = "select"
    /\ 2 \in weighted_index_choice(EventRates)
    /\ \E sp \in Range(current_full_species_lineages) :
          /\ all_lineages' = [all_lineages EXCEPT ![sp].extinction_time = current_time]
          /\ current_full_species_lineages' = Remove(current_full_species_lineages, sp)
          /\ UNCHANGED current_incipient_species_lineages
          /\ make_lineage_extinct_on_phylogeny(LineageNode(all_lineages, sp))
    /\ last_event' = "full_species_extinction"
    /\ UNCHANGED << cfg, num_retries, runs, current_time, current_lineage_index,
                    current_node_index, stop_reason, pruned_tree >>

\* faulty variant: the extinct lineage is left in the active list
IncipientSpeciesExtinctionKeepsActive ==
    /\ pc = "select"
    /\ 5 \in weighted_index_choice(EventRates)
    /\ \E sp \in Range(current_incipient_species_lineages) :
          /\ all_lineages' = [all_lineages EXCEPT ![sp].extinction_time = current_time]
          /\ UNCHANGED current_incipient_species_lineages
          /\ UNCHANGED current_full_species_lineages
          /\ make_lineage_extinct_on_phylogeny(LineageNode(all_lineages, sp))
    /\ last_event' = "incipient_species_extinction"
    /\ UNCHANGED << cfg, num_retries, runs, current_time, current_lineage_index,
                    current_node_index, stop_reason, pruned_tree >>

\* _process_incipient_species_extinction (299-303)
IncipientSpeciesExtinction ==
    /\ pc = "select"
    /\ 5 \in weighted_index_choice(EventRates)
    /\ \E sp \in Range(current_incipient_species_lineages) :
          /\ all_lineages' = [all_lineages EXCEPT ![sp].extinction_time = current_time]
          /\ current_incipient_species_lineages' =
                Remove(current_incipient_species_lineages, sp)
          /\ UNCHANGED current_full_species_lineages
          /\ make_lineage_extinct_on_phylogeny(LineageNode(all_lineages, sp))
    /\ last_event' = "incipient_species_extinction"
    /\ UNCHANGED << cfg, num_retries, runs, current_time, current_lineage_index,
                    current_node_index, stop_reason, pruned_tree >>

\* faulty variant: the converted lineage is not removed from the incipient list
IncipientSpeciesConversionKeepsIncipient ==
    /\ pc = "select"
    /\ 4 \in weighted_index_choice(EventRates)
    /\ \E lineage \in Range(current_incipient_species_lineages) :
          /\ UNCHANGED current_incipient_species_lineages
          /\ current_full_species_lineages' =
                Append(current_full_species_lineages, lineage)
          /\ Len(current_full_species_lineages) < MaxLineages
          /\ all_lineages' = [all_lineages EXCEPT
                                ![lineage].is_full_species = TRUE,
                                ![lineage].speciation_completion_time = current_time]
    /\ last_event' = "incipient_species_conversion"
    /\ AfterEvent
    /\ UNCHANGED << cfg, num_retries, runs, current_time, current_lineage_index,
                    current_node_index, psm_nodes, seed_node, stop_reason,
                    pruned_tree >>

\* _process_incipient_species_conversion (292-297)
IncipientSpeciesConversion ==
    /\ pc = "select"
    /\ 4 \in weighted_index_choice(EventRates)
    /\ \E lineage \in Range(current_incipient_species_lineages) :
          /\ current_incipient_species_lineages' =
                Remove(current_incipient_species_lineages, lineage)
          /\ current_full_species_lineages' =
                Append(current_full_species_lineages, lineage)
          /\ all_lineages' = [all_lineages EXCEPT
                                ![lineage].is_full_species = TRUE,
                                ![lineage].speciation_completion_time = current_time]
    /\ last_event' = "incipient_species_conversion"
    /\ AfterEvent
    /\ UNCHANGED << cfg, num_retries, runs, current_time, current_lineage_index,
                    current_node_index, psm_nodes, seed_node, stop_reason,
                    pruned_tree >>

\* ----------------------------------------------- end of a run, and retry
\* lines 263-266: the reconstruction after the loop was left by break.
\* ProcessFailedException is a TreeSimTotalExtinctionException (line 31).
AssembleAndReturn ==
    /\ pc = "finish"
    /\ \E asm \in Assembled :
          IF asm.ok
          THEN ReturnTrees(asm, stop_reason)
          ELSE /\ pc' = "except"
               /\ exc' = "ProcessFailedException"
               /\ all_lineages' = asm.lins
               /\ UNCHANGED << psm_nodes, pruned_tree, stop_reason >>
    /\ UNCHANGED << cfg, num_retries, runs, current_time, current_lineage_index,
                    current_node_index, current_full_species_lineages,
                    current_incipient_species_lineages, seed_node, last_event >>

\* faulty variant: the bound is tested with >= instead of >
RetryAllowedOffByOne(n) ==
    /\ cfg.is_retry_on_total_extinction
    /\ ~ (cfg.max_retries # None /\ n >= cfg.max_retries)

\* lines 167 and 170: the tests that let the loop of generate_sample go on
RetryAllowed(n) ==
    /\ cfg.is_retry_on_total_extinction
    /\ ~ (cfg.max_retries # None /\ n > cfg.max_retries)

\* faulty variant: is_retry_on_total_extinction is not consulted
HandleTotalExtinctionAlwaysRetry ==
    /\ pc = "except"
    /\ num_retries' = num_retries + 1
    /\ IF ~ (cfg.max_retries # None /\ num_retries + 1 > cfg.max_retries)
       THEN pc' = "call" /\ num_retries < MaxRetryCap
       ELSE pc' = "raised"
    /\ UNCHANGED << cfg, exc, runs, current_time, current_lineage_index,
                    current_node_index, current_full_species_lineages,
                    current_incipient_species_lineages, all_lineages, psm_nodes,
                    seed_node, last_event, stop_reason, pruned_tree >>

\* generate_sample lines 166-171: re-raise when retries are off or used up,
\* else count the retry and call the run again
HandleTotalExtinction ==
    /\ pc = "except"
    /\ IF ~ cfg.is_retry_on_total_extinction
       THEN /\ pc' = "raised"
            /\ UNCHANGED num_retries
       ELSE /\ num_retries' = num_retries + 1
            /\ IF RetryAllowed(num_retries + 1)
               THEN pc' = "call" /\ num_retries < MaxRetryCap
               ELSE pc' = "raised"
    /\ UNCHANGED << cfg, exc, runs, current_time, current_lineage_index,
                    current_node_index, current_full_species_lineages,
                    current_incipient_species_lineages, all_lineages, psm_nodes,
                    seed_node, last_event, stop_reason, pruned_tree >>

Next ==
    \/ RunStart
    \/ CheckLimits
    \/ DrawWaitingTime
    \/ FullSpeciesBirth
    \/ FullSpeciesExtinction
    \/ IncipientSpeciesBirth
    \/ IncipientSpeciesConversion
    \/ IncipientSpeciesExtinction
    \/ AssembleAndReturn
    \/ HandleTotalExtinction

Spec == Init /\ [][Next]_vars

\* =============================================================== claims
ExtinctionKinds == { "TreeSimTotalExtinctionException", "ProcessFailedException" }

\* ------------------------------------------------------------------ C1
\* C1: whenever a run reaches a configured limit with an active lineage,
\* the reconstruction yields a tree and generate_sample returns the pair;
\* nothing is raised or retried, also when only the founder is full.
C1_LimitReachedReturnsPair ==
    stop_reason # "none" => pc \in { "finish", "returned" }

\* ------------------------------------------------------------------ C2
\* C2: a reconstruction failure always reaches the caller of
\* generate_sample: it is not retried by the retry controller and it is
\* not passed over by the per-iteration leaf check.
C2_ReconstructionFailurePropagates ==
    [][ /\ (pc = "except" /\ exc = "ProcessFailedException") => pc' = "raised"
        /\ (pc = "loop" /\ cfg.max_full_species_tree_leaf_nodes # None
              /\ \A asm \in Assembled : ~ asm.ok) => pc' = "raised" ]_vars

\* ------------------------------------------------------------------ C3
\* C3: with retries on and max_retries = N, at most N+1 runs are started
\* and the extinction error reaches the caller only after the (N+1)-th
\* run; with max_retries = None the error never reaches the caller.
C3_RetryBound ==
    cfg.is_retry_on_total_extinction =>
        /\ cfg.max_retries # None => runs <= cfg.max_retries + 1
        /\ (pc = "raised" /\ exc \in ExtinctionKinds) =>
              (cfg.max_retries # None /\ runs = cfg.max_retries + 1)

C3_Witness ==
    /\ cfg.is_retry_on_total_extinction
    /\ cfg.max_retries = 1
    /\ pc = "raised"
    /\ exc = "TreeSimTotalExtinctionException"
    /\ runs = 2

\* ------------------------------------------------------------------ C4
\* C4: without retries the first total extinction reaches the caller after
\* exactly one run, and no tree pair is ever returned for a run whose two
\* active sets are both empty.
C4_NoRetryRaisesAfterOneRun ==
    /\ ~ cfg.is_retry_on_total_extinction =>
          /\ runs <= 1
          /\ (runs = 1 /\ NumActive = 0) =>
                (pc \in { "except", "raised" }
                   /\ exc = "TreeSimTotalExtinctionException")
    /\ pc = "returned" => NumActive > 0

C4_Witness ==
    /\ ~ cfg.is_retry_on_total_extinction
    /\ pc = "raised"
    /\ exc = "TreeSimTotalExtinctionException"
    /\ runs = 1
    /\ NumActive = 0
    /\ Len(all_lineages) >= 2

\* ------------------------------------------------------------------ C5
\* C5: at the first loop iteration of every run, the first and each retry,
\* the clock is 0, the registry holds the founder alone, the founder is the
\* only active lineage, in the set its kind says, and the live tree is one
\* zero-length node of the founder.
FirstIteration == pc = "loop" /\ last_event = "none"

C5_FreshStateEachRun ==
    FirstIteration =>
        /\ current_time = 0
        /\ current_lineage_index = 1
        /\ current_node_index = 1
        /\ all_lineages =
             << [ parent_lineage |-> 0,
                  is_full_species |-> ~ cfg.is_initial_species_incipient,
                  speciation_initiation_time |-> 0,
                  speciation_completion_time |-> None,
                  extinction_time |-> None,
                  psm_tree_node_history |-> << 1 >> ] >>
        /\ IF cfg.is_initial_species_incipient
           THEN /\ current_incipient_species_lineages = << 1 >>
                /\ current_full_species_lineages = << >>
           ELSE /\ current_full_species_lineages = << 1 >>
                /\ current_incipient_species_lineages = << >>
        /\ psm_nodes = << [ lineage |-> 1, parent_node |-> 0, length |-> 0,
                            is_full_speciation_event |-> FALSE ] >>
        /\ seed_node = 1

C5_Witness == FirstIteration /\ runs = 2 /\ num_retries = 1

\* ------------------------------------------------------------------ C6
\* C6: a run ended by max_protracted_speciation_tree_leaf_nodes = K has
\* exactly K active lineages (full plus incipient) at its end.
EndedByLeafLimit == stop_reason = "max_protracted_speciation_tree_leaf_nodes"

C6_LeafLimitExact ==
    EndedByLeafLimit =>
        NumActive = cfg.max_protracted_speciation_tree_leaf_nodes

C6_Witness ==
    /\ EndedByLeafLimit
    /\ cfg.max_protracted_speciation_tree_leaf_nodes = 3
    /\ pc = "returned"

\* ------------------------------------------------------------------ C7
\* C7: for every max_time T >= 0, T = 0 included, the clock never exceeds
\* T, and an overshooting waiting time stops the run at clock T before any
\* event is selected.
C7_ClockNeverExceedsMaxTime ==
    /\ cfg.max_time # None => current_time <= cfg.max_time
    /\ (cfg.max_time # None /\ pc = "select") => current_time <= cfg.max_time

\* ------------------------------------------------------------------ C8
\* C8: after every clock advance and any sequence of births, conversions
\* and extinction prunings, the edges from each active lineage's current
\* node up to the root sum to the clock; in a run ended by max_time = T
\* every leaf-to-root path of the unpruned tree sums to T.
ActiveSet == Range(ActiveLineages(current_full_species_lineages,
                                  current_incipient_species_lineages))

ExtinctLineages ==
    { l \in DOMAIN all_lineages : all_lineages[l].extinction_time # None }

C8_PathLengthsEqualClock ==
    /\ \A l \in ActiveSet :
          PathLength(psm_nodes, LineageNode(all_lineages, l)) = current_time
    /\ (stop_reason = "max_time" /\ pc \in { "finish", "returned" }) =>
          \A n \in LeafNodes(psm_nodes, seed_node) :
              PathLength(psm_nodes, n) = cfg.max_time

C8_Witness ==
    /\ stop_reason = "max_time"
    /\ pc = "finish"
    /\ ExtinctLineages # {}
    /\ Cardinality(LeafNodes(psm_nodes, seed_node)) >= 2
    /\ \E n \in LeafNodes(psm_nodes, seed_node) : psm_nodes[n].parent_node # 0

\* ------------------------------------------------------------------ C9
\* C9: for all non-negative rates the total event rate is 0 only when both
\* active sets are empty, and no waiting time is drawn with rate 0.
C9_ZeroRateOnlyWhenExtinct ==
    /\ (pc = "draw" /\ rate_of_any_event = 0) => NumActive = 0
    /\ exc # "ZeroDivisionError"

\* ----------------------------------------------------------------- C10
\* C10: in a run of full-species births only (b = 1, all other rates 0,
\* full founder) no incipient lineage is ever created, and the pruned tree
\* returned has the topology of the unpruned tree.
PureBirthRun ==
    /\ cfg.full_species_birth_rate = 1
    /\ cfg.full_species_extinction_rate = 0
    /\ cfg.incipient_species_birth_rate = 0
    /\ cfg.incipient_species_conversion_rate = 0
    /\ cfg.incipient_species_extinction_rate = 0
    /\ ~ cfg.is_initial_species_incipient

RECURSIVE IsDescendant(_, _, _)
IsDescendant(ns, n, a) ==
    \* a is n or an ancestor of n
    IF n = a THEN TRUE
    ELSE IF ns[n].parent_node = 0 THEN FALSE
    ELSE IsDescendant(ns, ns[n].parent_node, a)

\* the clades of the live tree, as sets of the lineages at its leaves
PsmClades ==
    { { psm_nodes[m].lineage :
          m \in { k \in LeafNodes(psm_nodes, seed_node) :
                      IsDescendant(psm_nodes, k, n) } } :
      n \in TreeNodes(psm_nodes, seed_node) }

\* the clades of the pruned tree, whose nodes are keyed by lineage
PrunedClades ==
    { { m \in LeafNodes(pruned_tree.nodes, pruned_tree.seed) :
            IsDescendant(pruned_tree.nodes, m, n) } :
      n \in TreeNodes(pruned_tree.nodes, pruned_tree.seed) }

SameTopology == PsmClades = PrunedClades

C10_PureBirthNoIncipient ==
    PureBirthRun =>
        /\ \A l \in DOMAIN all_lineages : all_lineages[l].is_full_species
        /\ current_incipient_species_lineages = << >>
        /\ pc = "returned" => SameTopology

\* C10 amended: in such a run every birth creates an incipient lineage whose
\* parent is the founder and which stays in the active incipient set, the
\* founder stays the only full species, and a pruned tree that is returned
\* has the topology of the unpruned tree.
C10_PureBirthAllIncipient ==
    PureBirthRun =>
        /\ \A l \in DOMAIN all_lineages :
              l # 1 => /\ ~ all_lineages[l].is_full_species
                       /\ all_lineages[l].parent_lineage = 1
                       /\ l \in Range(current_incipient_species_lineages)
        /\ runs >= 1 => current_full_species_lineages = << 1 >>
        /\ pc = "returned" => SameTopology

\* a pure-birth run after two births
C10_Witness ==
    /\ PureBirthRun
    /\ Len(all_lineages) >= 3
    /\ Len(current_incipient_species_lineages) >= 2
    /\ last_event = "full_species_birth"

\* ------------------------------------------------------------------ C11
\* the lineages the leaves of the returned pruned tree stand for
PrunedLeafLineages == LeafNodes(pruned_tree.nodes, pruned_tree.seed)

\* C11: at a successful return the leaves of the pruned tree stand for
\* exactly the lineages of the active full-species set: every extant full
\* species is a leaf, and no leaf is an incipient or extinct lineage.
C11_LeavesAreExtantFullSpecies ==
    pc = "returned" =>
        PrunedLeafLineages = Range(current_full_species_lineages)

\* ------------------------------------------------------------------ C12
\* _assemble_pruned_tree run a second time, on the lineage records as the
\* first run left them: the results it can have. Both calls build
\* lineage_set from the same lists of the same objects (line 342), so the
\* set iterates at line 343 as in the first call, and at line 382 as in the
\* first call wherever the same removals and additions went before.
AssembledAgain(first) ==
    assemble_pruned_tree(first.lins, current_full_species_lineages,
                         current_incipient_species_lineages, current_time,
                         first.first, first.sorts)

\* the shape of the subtree at node n: the length of its edge and, for
\* every shape its child subtrees have, the number of children of that shape
RECURSIVE Shape(_, _)
Shape(ns, n) ==
    LET kids == { Shape(ns, ch) : ch \in ChildNodes(ns, n) }
    IN  [ length |-> ns[n].length,
          children |-> [ k \in kids |->
                           Cardinality({ ch \in ChildNodes(ns, n) :
                                           Shape(ns, ch) = k }) ] ]

\* two assembled trees are isomorphic (same topology and edge lengths,
\* whichever lineages their nodes stand for), or both calls failed
SameTree(a, b) ==
    /\ a.ok = b.ok
    /\ a.ok => Shape(a.nodes, a.seed) = Shape(b.nodes, b.seed)

\* C12: reconstructing the pruned tree twice in succession on the same
\* state (same active sets, lineage records and clock) yields the same
\* topology and edge lengths, although the first reconstruction has set
\* is_full_species on parent lineages.
C12_ReconstructionIdempotent ==
    pc \in { "loop", "finish" } =>
       \A first \in Assembled :
          \A second \in AssembledAgain(first) : SameTree(first, second)

\* ------------------------------------------------------------------ C13
\* C13: within one run no step (event handler, per-iteration or final
\* reconstruction) changes a lineage's is_full_species from true to false.
C13_FullSpeciesFlagMonotone ==
    [][ runs' = runs =>
          \A l \in DOMAIN all_lineages :
              all_lineages[l].is_full_species =>
                  /\ l \in DOMAIN all_lineages'
                  /\ all_lineages'[l].is_full_species ]_vars

\* the per-iteration reconstruction has flagged a lineage that never
\* converted and is still in the incipient active set, and a later event
\* has made it extinct
C13_Witness ==
    \E l \in DOMAIN all_lineages :
        /\ all_lineages[l].is_full_species
        /\ all_lineages[l].speciation_completion_time = None
        /\ all_lineages[l].extinction_time # None
        /\ l # 1

\* ------------------------------------------------------------------ C14
\* C14: while a run is in its event loop at least one active set is
\* non-empty; an extinction handler whose removal empties both active sets
\* raises the total-extinction signal to generate_sample instead of going
\* on, and leaves the live tree unpruned.
C14_TotalExtinctionRaisedBeforePruning ==
    [][ /\ pc' \in { "loop", "draw", "select", "finish" } => NumActive' > 0
        /\ ( /\ pc = "select"
             /\ last_event' \in { "full_species_extinction",
                                  "incipient_species_extinction" }
             /\ NumActive' = 0 )
           => /\ pc' = "except"
              /\ exc' = "TreeSimTotalExtinctionException"
              /\ psm_nodes' = psm_nodes
              /\ seed_node' = seed_node ]_vars

\* the last active lineage of a run with several lineages went extinct
C14_Witness ==
    /\ pc = "except"
    /\ exc = "TreeSimTotalExtinctionException"
    /\ last_event \in { "full_species_extinction", "incipient_species_extinction" }
    /\ NumActive = 0
    /\ Len(all_lineages) >= 2

\* ------------------------------------------------------------------ C15
\* C15: after postprocessing, the live-tree node every pruned-tree node
\* refers back to is a node of the returned unpruned tree and is in the
\* node history of the pruned node's own lineage.
C15_BackReferencesOnLiveTree ==
    pc = "returned" =>
        \A l \in TreeNodes(pruned_tree.nodes, pruned_tree.seed) :
            /\ pruned_tree.nodes[l].psm_tree_node
                  \in TreeNodes(psm_nodes, seed_node)
            /\ pruned_tree.nodes[l].psm_tree_node
                  \in Range(all_lineages[l].psm_tree_node_history)

\* ------------------------------------------------------------------ C16
\* the lineage without a parent that is reached from l by following
\* parent_lineage at most fuel times (0: none reached)
RECURSIVE FollowParents(_, _, _)
FollowParents(lins, l, fuel) ==
    IF lins[l].parent_lineage = 0 THEN l
    ELSE IF fuel = 0 THEN 0
    ELSE FollowParents(lins, lins[l].parent_lineage, fuel - 1)

\* the founder is the first lineage a run creates
ParentLinksWellFormed(lins) ==
    \A l \in DOMAIN lins :
        /\ (lins[l].parent_lineage = 0) <=> (l = 1)
        /\ l # 1 =>
             /\ lins[l].parent_lineage \in DOMAIN lins
             /\ lins[l].parent_lineage # l
             /\ lins[lins[l].parent_lineage].speciation_initiation_time
                  <= lins[l].speciation_initiation_time
        /\ FollowParents(lins, l, Len(lins)) = 1

\* C16: every lineage but the founder has one parent lineage, set when it
\* is created and never changed, initiated no later than the child; the
\* founder is the only lineage without a parent, and the parent links of
\* every lineage lead to the founder.
C16_ParentLinks ==
    [][ /\ ParentLinksWellFormed(all_lineages')
        /\ runs' = runs =>
             \A l \in DOMAIN all_lineages :
                 /\ l \in DOMAIN all_lineages'
                 /\ all_lineages'[l].parent_lineage
                      = all_lineages[l].parent_lineage ]_vars

\* a lineage whose parent is not the founder and was initiated earlier
C16_Witness ==
    \E l \in DOMAIN all_lineages :
        /\ all_lineages[l].parent_lineage > 1
        /\ all_lineages[all_lineages[l].parent_lineage].speciation_initiation_time
             < all_lineages[l].speciation_initiation_time
        /\ all_lineages[all_lineages[l].parent_lineage].extinction_time # None

\* ------------------------------------------------------------------ C17
\* number of nodes of the live tree
NodeCount(ns, seed) == Cardinality(TreeNodes(ns, seed))

BirthKinds == { "full_species_birth", "incipient_species_birth" }

\* C17: every event that is not an extinction (full-species birth,
\* incipient-species birth, conversion) leaves the live tree with strictly
\* more nodes than it had before the event.
C17_NodeCountGrowsUnlessExtinction ==
    [][ ( /\ pc = "select"
          /\ last_event' \in BirthKinds \cup { "incipient_species_conversion" } )
        => NodeCount(psm_nodes', seed_node') > NodeCount(psm_nodes, seed_node) ]_vars

\* C17 amended: a birth event adds exactly two nodes to the live tree; a
\* conversion adds none and leaves the live tree as it was.
C17_BirthsAddTwoNodes ==
    [][ /\ (pc = "select" /\ last_event' \in BirthKinds)
           => NodeCount(psm_nodes', seed_node')
                = NodeCount(psm_nodes, seed_node) + 2
        /\ (pc = "select" /\ last_event' = "incipient_species_conversion")
           => /\ psm_nodes' = psm_nodes
              /\ seed_node' = seed_node ]_vars

\* a conversion was applied to a live tree that births had grown
C17_Witness ==
    /\ last_event = "incipient_species_conversion"
    /\ pc = "loop"
    /\ NodeCount(psm_nodes, seed_node) >= 5

\* ------------------------------------------------------------------ C18
HasNegativeRate ==
    \/ cfg.full_species_birth_rate < 0
    \/ cfg.full_species_extinction_rate < 0
    \/ cfg.incipient_species_birth_rate < 0
    \/ cfg.incipient_species_conversion_rate < 0
    \/ cfg.incipient_species_extinction_rate < 0

\* C18: a configuration with a negative rate is rejected with a
\* configuration error at construction or at the start of generate_sample:
\* no run is started, no lineage is created and no event is simulated.
C18_NegativeRateRejectedEagerly ==
    HasNegativeRate =>
        /\ runs = 0
        /\ all_lineages = << >>
        /\ pc \in { "call", "raised" }

\* ------------------------------------------------------------------ C19
\* what a birth step does, for the lineage new_l it creates, its parent
\* and the two nodes n1 and n2 it makes
BirthEffect(active_before) ==
    LET new_l  == Len(all_lineages) + 1
        n1     == Len(psm_nodes) + 1
        n2     == Len(psm_nodes) + 2
    IN  /\ Len(all_lineages') = Len(all_lineages) + 1
        /\ LET parent == all_lineages'[new_l].parent_lineage
           IN  /\ parent \in Range(active_before)
               /\ ~ all_lineages'[new_l].is_full_species
               /\ all_lineages'[new_l].speciation_initiation_time = current_time
               /\ all_lineages'[new_l].speciation_completion_time = None
               /\ all_lineages'[new_l].extinction_time = None
               /\ current_incipient_species_lineages'
                    = Append(current_incipient_species_lineages, new_l)
               /\ current_full_species_lineages' = current_full_species_lineages
               /\ current_time' = current_time
               /\ Len(psm_nodes') = Len(psm_nodes) + 2
               /\ \A n \in { n1, n2 } :
                     /\ psm_nodes'[n].length = 0
                     /\ psm_nodes'[n].parent_node = LineageNode(all_lineages, parent)
               /\ LineageNode(all_lineages', parent) = n1
               /\ psm_nodes'[n1].lineage = parent
               /\ all_lineages'[new_l].psm_tree_node_history = << n2 >>
               /\ psm_nodes'[n2].lineage = new_l
               /\ all_lineages'[parent] =
                    [all_lineages[parent] EXCEPT !.psm_tree_node_history =
                                                    Append(@, n1)]
               /\ \A l \in DOMAIN all_lineages :
                     l # parent => all_lineages'[l] = all_lineages[l]
               /\ \A n \in DOMAIN psm_nodes : psm_nodes'[n] = psm_nodes[n]
               /\ seed_node' = seed_node

\* C19: a birth event adds one lineage to the registry, incipient, in the
\* incipient active set, with the selected lineage as parent and the clock
\* as initiation time; it adds two zero-length nodes as children of the
\* parent lineage's previous current node, one the parent's new current
\* node and one the new lineage's; the full active set, the clock and
\* every other lineage and node are unchanged.
C19_BirthFrame ==
    [][ /\ (pc = "select" /\ last_event' = "full_species_birth")
           => BirthEffect(current_full_species_lineages)
        /\ (pc = "select" /\ last_event' = "incipient_species_birth")
           => BirthEffect(current_incipient_species_lineages) ]_vars

\* a birth from a parent other than the founder, with other lineages around
C19_Witness ==
    /\ last_event \in BirthKinds
    /\ pc = "loop"
    /\ Len(all_lineages) >= 3
    /\ all_lineages[Len(all_lineages)].parent_lineage > 1
    /\ all_lineages[Len(all_lineages)].psm_tree_node_history
         = << Len(psm_nodes) >>

\* ------------------------------------------------------------------ C20
\* the event kinds in the order of event_rates (lines 212-225)
EventKinds ==
    << "full_species_birth", "full_species_extinction",
       "incipient_species_birth", "incipient_species_conversion",
       "incipient_species_extinction" >>

\* the active list the handler of event kind i chooses from
HandlerList(i) ==
    IF i \in { 1, 2 } THEN current_full_species_lineages
    ELSE current_incipient_species_lineages

\* the rate of event kind i: its configured rate times the number of
\* lineages its handler can choose from
KindRate(i) ==
    Len(HandlerList(i)) *
      ( IF i = 1 THEN cfg.full_species_birth_rate
        ELSE IF i = 2 THEN cfg.full_species_extinction_rate
        ELSE IF i = 3 THEN cfg.incipient_species_birth_rate
        ELSE IF i = 4 THEN cfg.incipient_species_conversion_rate
        ELSE cfg.incipient_species_extinction_rate )

\* C20: an event kind is selected and its handler applied only when its
\* rate is strictly positive at selection time, so the full-species birth
\* and extinction handlers run with a non-empty active full set and the
\* incipient birth, conversion and extinction handlers with a non-empty
\* active incipient set.
C20_SelectedEventHasPositiveRate ==
    [][ \A i \in DOMAIN EventKinds :
          (pc = "select" /\ pc' # "select" /\ last_event' = EventKinds[i])
          => /\ KindRate(i) > 0
             /\ Len(HandlerList(i)) > 0 ]_vars

\* an event was applied in a run where another kind has rate zero although
\* lineages it could act on are active
C20_Witness ==
    /\ pc = "loop"
    /\ last_event = "incipient_species_birth"
    /\ cfg.incipient_species_extinction_rate = 0
    /\ cfg.incipient_species_conversion_rate = 0
    /\ Len(current_incipient_species_lineages) >= 2
    /\ Len(current_full_species_lineages) >= 1

\* ------------------------------------------------------------------ C21
\* the ancestors of lineage l along parent_lineage
RECURSIVE LineageAncestors(_, _)
LineageAncestors(lins, l) ==
    IF lins[l].parent_lineage = 0 THEN {}
    ELSE { lins[l].parent_lineage }
           \cup LineageAncestors(lins, lins[l].parent_lineage)

\* the working-set loop of _assemble_pruned_tree run on the current state:
\* the states it can end in
BranchingRun ==
    UNION { BranchingPoints(all_lineages, current_full_species_lineages,
                            current_incipient_species_lineages, order, << >>) :
            order \in SetOrders(all_lineages,
                                Range(current_incipient_species_lineages
                                        \o current_full_species_lineages)) }

\* C21: in the reconstruction no lineage is popped while a descendant of it
\* is in the working set or is inserted later; so every lineage is popped
\* at most once, a lineage whose flag is forced to full is popped only
\* after the full child that forced it, and the founder, when it is
\* popped, is popped last, with nothing left in the working set.
C21_ParentsPoppedAfterDescendants ==
    pc \in { "loop", "finish" } =>
        \A st \in BranchingRun :
          LET popped == st.popped
          IN
            /\ \A i, j \in DOMAIN popped :
                  i < j => /\ popped[i] # popped[j]
                           /\ popped[i] \notin LineageAncestors(all_lineages, popped[j])
            /\ \A i \in DOMAIN popped : \A m \in st.set :
                  popped[i] \notin LineageAncestors(all_lineages, m)
            /\ \A j \in DOMAIN popped :
                  ( /\ st.lins[popped[j]].is_full_species
                    /\ ~ all_lineages[popped[j]].is_full_species )
                  => \E i \in 1..(j - 1) :
                        /\ all_lineages[popped[i]].parent_lineage = popped[j]
                        /\ st.lins[popped[i]].is_full_species
            /\ 1 \in Range(popped) => /\ popped[Len(popped)] = 1
                                      /\ st.set = {}

\* ------------------------------------------------------------------ C22
\* a time stamp that a step may set once, to the clock, by an event of the
\* given kinds, and that is never changed afterwards
StampedOnce(before, after, kinds) ==
    /\ before # None => after = before
    /\ (before = None /\ after # None)
         => /\ after = current_time
            /\ pc = "select"
            /\ last_event' \in kinds

\* C22: within a run a lineage's speciation-initiation time never changes,
\* its speciation-completion time and its extinction time are each set at
\* most once, to the clock of the conversion resp. extinction event, and
\* no later event selects a lineage whose extinction time is set.
C22_TimeStampsSetOnce ==
    [][ runs' = runs =>
          /\ \A l \in DOMAIN all_lineages :
                /\ l \in DOMAIN all_lineages'
                /\ all_lineages'[l].speciation_initiation_time
                     = all_lineages[l].speciation_initiation_time
                /\ StampedOnce(all_lineages[l].speciation_completion_time,
                               all_lineages'[l].speciation_completion_time,
                               { "incipient_species_conversion" })
                /\ StampedOnce(all_lineages[l].extinction_time,
                               all_lineages'[l].extinction_time,
                               { "full_species_extinction",
                                 "incipient_species_extinction" })
                /\ all_lineages[l].extinction_time # None =>
                      /\ all_lineages'[l] = all_lineages[l]
                         \/ pc \in { "loop", "finish" }
                      /\ \A m \in DOMAIN all_lineages' \ DOMAIN all_lineages :
                            all_lineages'[m].parent_lineage # l ]_vars

\* a lineage converted and later went extinct, and a later birth took place
C22_Witness ==
    \E l, m \in DOMAIN all_lineages :
        /\ all_lineages[l].speciation_completion_time # None
        /\ all_lineages[l].extinction_time # None
        /\ all_lineages[l].speciation_completion_time
             < all_lineages[l].extinction_time
        /\ all_lineages[m].speciation_initiation_time
             > all_lineages[l].extinction_time

\* ------------------------------------------------------------------ C23
\* C23: at every iteration of the event loop, whatever termination options
\* are set (max_full_species_tree_leaf_nodes included), every lineage of
\* the incipient active set has is_full_species false and every lineage
\* of the full active set has is_full_species true.
C23_ActiveSetsMatchFlags ==
    pc \in { "loop", "draw", "select" } =>
        /\ \A l \in Range(current_incipient_species_lineages) :
              ~ all_lineages[l].is_full_species
        /\ \A l \in Range(current_full_species_lineages) :
              all_lineages[l].is_full_species

\* ------------------------------------------------------------------ C24
NoDuplicates(s) == \A i, j \in DOMAIN s : s[i] = s[j] => i = j

\* C24: in every state of a run the two active sets are disjoint and hold
\* no lineage twice, and a lineage of the registry is in one of them
\* exactly when its extinction time is unset.
C24_ActiveSetsPartitionTheLiving ==
    /\ NoDuplicates(current_full_species_lineages)
    /\ NoDuplicates(current_incipient_species_lineages)
    /\ Range(current_full_species_lineages)
         \cap Range(current_incipient_species_lineages) = {}
    /\ \A l \in DOMAIN all_lineages :
          (l \in Range(current_full_species_lineages)
                   \cup Range(current_incipient_species_lineages))
          <=> all_lineages[l].extinction_time = None
    /\ Range(current_full_species_lineages)
         \cup Range(current_incipient_species_lineages) \subseteq DOMAIN all_lineages

\* both active sets are inhabited, one lineage has converted and one is
\* extinct
C24_Witness ==
    /\ Len(current_full_species_lineages) >= 1
    /\ Len(current_incipient_species_lineages) >= 1
    /\ \E l \in Range(current_full_species_lineages) :
          all_lineages[l].speciation_completion_time # None
    /\ \E l \in DOMAIN all_lineages : all_lineages[l].extinction_time # None

\* ------------------------------------------------------------------ C25
\* the lineages for which the working-set loop created a pruned-tree node
CreatedNodes(st) == { l \in DOMAIN st.nodes : st.nodes[l].made }

\* C25: when the working-set loop of the reconstruction ends with at least
\* one pruned-tree node created, exactly one created node has no parent
\* node, it is the founder's, and every other created node is reachable
\* from it; no node was attached twice and none is left detached.
C25_BranchingNodesFormOneTree ==
    pc \in { "loop", "finish" } =>
        \A st \in BranchingRun :
          LET created == CreatedNodes(st)
          IN
            created # {} =>
              /\ { l \in created : st.nodes[l].parent_node = 0 } = { 1 }
              /\ \A l \in created :
                    /\ InTree(st.nodes, 1, l)
                    /\ l # 1 => st.nodes[l].parent_node \in created
              /\ NoDuplicates(st.attached)
              /\ Range(st.attached) = created \ { 1 }
              /\ SeedOf(st) = 1

\* ------------------------------------------------------------------ C26
\* the pruned tree with ages and edge lengths assigned (lines 396-401),
\* before the unifurcations are suppressed
AgedTree ==
    { LET seed == SeedOf(st)
          aged == NodeAges(st.nodes, seed, st.lins, current_time)
      IN  [ seed |-> seed,
            nodes |-> set_edge_lengths_from_node_ages(aged, seed) ]
      : st \in BranchingRun }

\* C26: in every pruned tree the reconstruction produces, the age given
\* to an internal node (clock minus the earliest initiation time among its
\* children's lineages) is at least the age of each of its children, so
\* every edge length derived from the ages is non-negative, and every
\* leaf has age 0; this stays so when the unifurcations are suppressed
\* (line 402).
C26_AgesDecreaseTowardsLeaves ==
    pc \in { "loop", "finish" } =>
        \A aged \in AgedTree :
          LET asm == suppress_unifurcations(aged.nodes, aged.seed)
          IN
            aged.seed # 0 =>
              /\ \A l \in TreeNodes(aged.nodes, aged.seed) :
                    /\ ChildNodes(aged.nodes, l) = {} => aged.nodes[l].age = 0
                    /\ \A ch \in ChildNodes(aged.nodes, l) :
                          /\ aged.nodes[l].age >= aged.nodes[ch].age
                          /\ aged.nodes[ch].length >= 0
              /\ \A l \in TreeNodes(asm.nodes, asm.seed) :
                    /\ ChildNodes(asm.nodes, l) = {} => asm.nodes[l].age = 0
                    /\ \A ch \in ChildNodes(asm.nodes, l) :
                          /\ asm.nodes[l].age >= asm.nodes[ch].age
                          /\ asm.nodes[ch].length >= 0

\* a reconstructed tree with an internal node below the root and an edge
\* of positive length
C26_Witness ==
    /\ pc = "finish"
    /\ \E aged \in AgedTree :
         /\ aged.seed # 0
         /\ \E l \in TreeNodes(aged.nodes, aged.seed) :
              /\ aged.nodes[l].parent_node # 0
              /\ ChildNodes(aged.nodes, l) # {}
              /\ aged.nodes[l].age > 0
              /\ aged.nodes[l].length > 0

====
